---- MODULE Spec2Model ----
(***************************************************************************)
(* State-machine model of liquid-rust's rendering core:                    *)
(*   - src/src/filters.rs : the ten built-in filters and FilterError       *)
(*   - src/src/template.rs: Template::render, the composite render loop    *)
(*                                                                         *)
(* Strings are sequences of Unicode scalar values (code points), so that   *)
(* the UTF-8 byte length that str::len() reports and the number of         *)
(* characters are different quantities.  A Num is an f32; the model keeps  *)
(* it as an exact rational (every value used is a small dyadic rational,   *)
(* on which f32 arithmetic is exact) or one of inf, -inf, nan.             *)
(***************************************************************************)
EXTENDS Integers, Sequences, FiniteSets, TLC

VARIABLES
    fcall,      \* the filter invocation last made: name, input, args
    fres,       \* the FilterResult it returned
    tmpl,       \* the Template under render (its elements never change)
    ctx,        \* the Context: filter registry and interrupt flag
    stack,      \* call stack of Template::render activations, innermost last
    calls,      \* per child path, how often its render was invoked in this pass
    done        \* what the top-level render call just returned, until the caller moves on

vars == <<fcall, fres, tmpl, ctx, stack, calls, done>>

(***************************************************************************)
(* Bounds of the model.                                                    *)
(***************************************************************************)
MaxStrLen == 2      \* longest input string, in characters
MaxArgs == 3        \* longest argument sequence handed to a filter
MaxNodes == 4       \* most nodes below the root Template

(***************************************************************************)
(* Strings.                                                                *)
(***************************************************************************)
\* 'a', 'b' and U+00E9 (e with acute accent, two bytes in UTF-8)
Chars == {97, 98, 233}

\* all strings over alphabet cs of at most n characters
RECURSIVE StrsUpTo(_, _)
StrsUpTo(cs, n) ==
    IF n = 0 THEN {<<>>}
    ELSE LET shorter == StrsUpTo(cs, n - 1)
         IN  shorter \cup {<<c>> \o s : c \in cs, s \in {t \in shorter : Len(t) = n - 1}}

\* number of bytes of the UTF-8 encoding of one scalar value
Utf8Len(c) ==
    IF c < 128 THEN 1 ELSE IF c < 2048 THEN 2 ELSE IF c < 65536 THEN 3 ELSE 4

\* str::len(): the length of the string in bytes
RECURSIVE StrLen(_)
StrLen(s) == IF s = <<>> THEN 0 ELSE Utf8Len(Head(s)) + StrLen(Tail(s))

\* char::to_uppercase() on Basic Latin and Latin-1: one char may become two
CharToUpper(c) ==
    IF c >= 97 /\ c <= 122 THEN <<c - 32>>
    ELSE IF c = 223 THEN <<83, 83>>
    ELSE IF c >= 224 /\ c <= 254 /\ c # 247 THEN <<c - 32>>
    ELSE <<c>>

\* str::to_uppercase()
RECURSIVE ToUppercase(_)
ToUppercase(s) ==
    IF s = <<>> THEN <<>> ELSE CharToUpper(Head(s)) \o ToUppercase(Tail(s))

IsPrefix(p, s) == Len(p) <= Len(s) /\ SubSeq(s, 1, Len(p)) = p

\* str::replace(from, to): the non-overlapping matches of `from`, found left
\* to right, each replaced by `to`; the empty pattern matches at every
\* character boundary, both ends included
RECURSIVE ReplaceNonEmpty(_, _, _)
ReplaceNonEmpty(s, from, to) ==
    IF Len(s) < Len(from) THEN s
    ELSE IF IsPrefix(from, s)
         THEN to \o ReplaceNonEmpty(SubSeq(s, Len(from) + 1, Len(s)), from, to)
         ELSE <<Head(s)>> \o ReplaceNonEmpty(Tail(s), from, to)

RECURSIVE ReplaceEmpty(_, _)
ReplaceEmpty(s, to) ==
    IF s = <<>> THEN to ELSE to \o <<Head(s)>> \o ReplaceEmpty(Tail(s), to)

\* variant: only the first match is replaced
StrReplaceFirst(s, from, to) ==
    IF from = <<>> THEN to \o s
    ELSE IF \E p \in 1..Len(s) : IsPrefix(from, SubSeq(s, p, Len(s)))
         THEN LET p == CHOOSE q \in 1..Len(s) :
                          /\ IsPrefix(from, SubSeq(s, q, Len(s)))
                          /\ \A m \in 1..(q - 1) : ~IsPrefix(from, SubSeq(s, m, Len(s)))
              IN  SubSeq(s, 1, p - 1) \o to \o SubSeq(s, p + Len(from), Len(s))
         ELSE s

StrReplace(s, from, to) ==
    IF from = <<>> THEN ReplaceEmpty(s, to) ELSE ReplaceNonEmpty(s, from, to)

(***************************************************************************)
(* f32 numbers, kept exactly.                                              *)
(***************************************************************************)
Abs(n) == IF n < 0 THEN -n ELSE n

RECURSIVE Gcd(_, _)
Gcd(a, b) == IF b = 0 THEN a ELSE Gcd(b, a % b)

\* the finite number n/d (d # 0), in lowest terms with a positive denominator
Rat(n, d) ==
    LET s == IF d < 0 THEN -1 ELSE 1
        g == Gcd(Abs(n), Abs(d))
    IN  [k |-> "fin", num |-> (s * n) \div g, den |-> (s * d) \div g]

PosInf == [k |-> "inf", num |-> 0, den |-> 1]
NegInf == [k |-> "-inf", num |-> 0, den |-> 1]
NaN == [k |-> "nan", num |-> 0, den |-> 1]

F32Sub(a, b) == Rat(a.num * b.den - b.num * a.den, a.den * b.den)
F32Add(a, b) == Rat(a.num * b.den + b.num * a.den, a.den * b.den)
F32Mul(a, b) == Rat(a.num * b.num, a.den * b.den)

\* IEEE division: x/0 is an infinity of x's sign, 0/0 is NaN
F32Div(a, b) ==
    IF b.num = 0
    THEN IF a.num = 0 THEN NaN ELSE IF a.num > 0 THEN PosInf ELSE NegInf
    ELSE Rat(a.num * b.den, a.den * b.num)

\* f32::floor, f32::ceil: infinities and NaN are returned as they are
F32Floor(a) == IF a.k # "fin" THEN a ELSE Rat(a.num \div a.den, 1)
F32Ceil(a) == IF a.k # "fin" THEN a ELSE Rat(-((-a.num) \div a.den), 1)

\* f32::round: to the nearest integer, halfway cases away from zero
F32Round(a) ==
    IF a.k # "fin" THEN a
    ELSE IF a.num >= 0
         THEN Rat((2 * a.num + a.den) \div (2 * a.den), 1)
         ELSE Rat(-((2 * (-a.num) + a.den) \div (2 * a.den)), 1)

(***************************************************************************)
(* Value (value::Value, used by the filters) and FilterResult.             *)
(***************************************************************************)
Str(s) == [t |-> "Str", v |-> s]
Num(q) == [t |-> "Num", v |-> q]
Bool(b) == [t |-> "Bool", v |-> b]
Array(xs) == [t |-> "Array", v |-> xs]
Object(m) == [t |-> "Object", v |-> m]

NoValue == [t |-> "none", v |-> 0]

Ok(val) == [kind |-> "Ok", val |-> val, pos |-> 0, msg |-> "", given |-> 0]
InvalidType(m) ==
    [kind |-> "InvalidType", val |-> NoValue, pos |-> 0, msg |-> m, given |-> 0]
\* the message of InvalidArgumentCount is format!("expected 2, {} given", n)
InvalidArgumentCount(m, n) ==
    [kind |-> "InvalidArgumentCount", val |-> NoValue, pos |-> 0, msg |-> m, given |-> n]
InvalidArgument(p, m) ==
    [kind |-> "InvalidArgument", val |-> NoValue, pos |-> p, msg |-> m, given |-> 0]

\* <[Value]>::first(): None on an empty slice
HasFirstNum(args) == Len(args) >= 1 /\ args[1].t = "Num"

(***************************************************************************)
(* The built-in filters.                                                   *)
(***************************************************************************)
size(input, args) ==
    CASE input.t = "Str" -> Ok(Num(Rat(StrLen(input.v), 1)))
      [] input.t = "Array" -> Ok(Num(Rat(Len(input.v), 1)))
      [] input.t = "Object" -> Ok(Num(Rat(Cardinality(DOMAIN input.v), 1)))
      [] OTHER -> InvalidType("String, Array or Object expected")

upcase(input, args) ==
    IF input.t = "Str" THEN Ok(Str(ToUppercase(input.v)))
    ELSE InvalidType("String expected")

minus(input, args) ==
    IF input.t # "Num" THEN InvalidType("Num expected")
    ELSE IF HasFirstNum(args) THEN Ok(Num(F32Sub(input.v, args[1].v)))
    ELSE InvalidArgument(0, "Num expected")

plus(input, args) ==
    IF input.t # "Num" THEN InvalidType("Num expected")
    ELSE IF HasFirstNum(args) THEN Ok(Num(F32Add(input.v, args[1].v)))
    ELSE InvalidArgument(0, "Num expected")

\* variant: the number of arguments is checked, as replace does
timesCountingArgs(input, args) ==
    IF Len(args) # 1 THEN InvalidArgumentCount("expected 1, {} given", Len(args))
    ELSE IF input.t # "Num" THEN InvalidType("Num expected")
    ELSE IF HasFirstNum(args) THEN Ok(Num(F32Mul(input.v, args[1].v)))
    ELSE InvalidArgument(0, "Num expected")

times(input, args) ==
    IF input.t # "Num" THEN InvalidType("Num expected")
    ELSE IF HasFirstNum(args) THEN Ok(Num(F32Mul(input.v, args[1].v)))
    ELSE InvalidArgument(0, "Num expected")

divided_by(input, args) ==
    IF input.t # "Num" THEN InvalidType("Num expected")
    ELSE IF HasFirstNum(args) THEN Ok(Num(F32Floor(F32Div(input.v, args[1].v))))
    ELSE InvalidArgument(0, "Num expected")

floor(input, args) ==
    IF input.t = "Num" THEN Ok(Num(F32Floor(input.v))) ELSE InvalidType("Num expected")

ceil(input, args) ==
    IF input.t = "Num" THEN Ok(Num(F32Ceil(input.v))) ELSE InvalidType("Num expected")

round(input, args) ==
    IF input.t = "Num" THEN Ok(Num(F32Round(input.v))) ELSE InvalidType("Num expected")

replace(input, args) ==
    IF Len(args) # 2 THEN InvalidArgumentCount("expected 2, {} given", Len(args))
    ELSE IF input.t = "Str"
         THEN IF args[1].t # "Str" THEN InvalidArgument(0, "Str expected")
              ELSE IF args[2].t # "Str" THEN InvalidArgument(1, "Str expected")
              ELSE Ok(Str(StrReplace(input.v, args[1].v, args[2].v)))
         ELSE InvalidType("String expected")

\* the names Template::render registers, and the function behind each
FilterNames ==
    {"size", "upcase", "minus", "plus", "times", "divided_by",
     "ceil", "floor", "round", "replace"}

CallFilter(name, input, args) ==
    CASE name = "size" -> size(input, args)
      [] name = "upcase" -> upcase(input, args)
      [] name = "minus" -> minus(input, args)
      [] name = "plus" -> plus(input, args)
      [] name = "times" -> times(input, args)
      [] name = "divided_by" -> divided_by(input, args)
      [] name = "ceil" -> ceil(input, args)
      [] name = "floor" -> floor(input, args)
      [] name = "round" -> round(input, args)
      [] name = "replace" -> replace(input, args)

(***************************************************************************)
(* Applying a filter: one invocation with an input and an argument list.   *)
(***************************************************************************)
\* the finite f32 inputs tried: -1.5, 0, 0.5, 2, 2.5
InputNums == {Rat(-3, 2), Rat(0, 1), Rat(1, 2), Rat(2, 1), Rat(5, 2)}

InputValues ==
    {Str(s) : s \in StrsUpTo(Chars, MaxStrLen)}
    \cup {Num(q) : q \in InputNums}
    \cup {Bool(TRUE), Bool(FALSE)}
    \cup {Array(<<>>), Array(<<Bool(TRUE)>>), Array(<<Str(<<97>>), Num(Rat(2, 1))>>)}
    \cup {Object(<<>>), Object([k \in {"x"} |-> Bool(TRUE)]),
          Object([k \in {"x", "y"} |-> Str(<<97>>)])}

\* the values an argument may take: "", "a", "ab", 0, 2, true
ArgValues ==
    {Str(<<>>), Str(<<97>>), Str(<<97, 98>>), Num(Rat(0, 1)), Num(Rat(2, 1)), Bool(TRUE)}

RECURSIVE SeqsUpTo(_, _)
SeqsUpTo(S, n) ==
    IF n = 0 THEN {<<>>}
    ELSE LET shorter == SeqsUpTo(S, n - 1)
         IN  shorter \cup {Append(q, x) : q \in {t \in shorter : Len(t) = n - 1}, x \in S}

ArgSeqs == SeqsUpTo(ArgValues, MaxArgs)

NoCall == [name |-> "none", input |-> NoValue, args |-> <<>>]

(***************************************************************************)
(* Template and its children.                                              *)
(***************************************************************************)
\* a child that is not a Template: some other Renderable
Leaf == [kind |-> "leaf", elements |-> <<>>]

\* Template::new(elements)
TemplateNew(elements) == [kind |-> "template", elements |-> elements]

RECURSIVE NodeSize(_)
NodeSize(node) ==
    LET RECURSIVE Sum(_)
        Sum(es) == IF es = <<>> THEN 0 ELSE NodeSize(Head(es)) + Sum(Tail(es))
    IN  1 + Sum(node.elements)

\* every element list holding at most n nodes, nested Templates included
RECURSIVE Forests(_)
Forests(n) ==
    IF n = 0 THEN {<<>>}
    ELSE LET nodes == {Leaf} \cup {TemplateNew(es) : es \in Forests(n - 1)}
         IN  {<<>>} \cup UNION {{<<x>> \o rest : rest \in Forests(n - NodeSize(x))} : x \in nodes}

Templates == {TemplateNew(es) : es \in Forests(MaxNodes)}

\* the node a path of child positions (1-based) leads to
RECURSIVE NodeAt(_, _)
NodeAt(node, path) ==
    IF path = <<>> THEN node ELSE NodeAt(node.elements[Head(path)], Tail(path))

RECURSIVE Paths(_)
Paths(node) ==
    {<<>>} \cup UNION {{<<j>> \o p : p \in Paths(node.elements[j])} : j \in 1..Len(node.elements)}

(***************************************************************************)
(* Renderable::render results: Result<Option<String>>.                     *)
(***************************************************************************)
RSome(s) == [r |-> "some", s |-> s, e |-> ""]
RNone == [r |-> "none", s |-> <<>>, e |-> ""]
RErr(e) == [r |-> "err", s |-> <<>>, e |-> e]

\* what a child that is not a Template may return
LeafResults == {RSome(<<97>>), RSome(<<98>>), RNone, RErr("E1"), RErr("E2")}

(***************************************************************************)
(* Context: the filter registry and the interrupt flag.                    *)
(***************************************************************************)
\* names the caller registers filters of its own under
UserNames == {"replace", "my_filter"}

RegistryNames == FilterNames \cup UserNames

\* Context::add_filter(name, filter): insert, or overwrite the entry
add_filter(c, name, f) == [c EXCEPT !.filters[name] = f]

\* Context::interrupted()
interrupted(c) == c.interrupt

ContextNew == [filters |-> [n \in RegistryNames |-> "none"], interrupt |-> FALSE]

(***************************************************************************)
(* Template::render.                                                       *)
(***************************************************************************)
\* the add_filter calls that open render, in program order: name, function
BuiltinFilters ==
    << <<"size", "size">>, <<"upcase", "upcase">>, <<"minus", "minus">>,
       <<"plus", "plus">>, <<"times", "times">>, <<"divided_by", "divided_by">>,
       <<"ceil", "ceil">>, <<"floor", "floor">>, <<"round", "round">>,
       <<"replace", "replace">> >>

RECURSIVE AddFilters(_, _)
AddFilters(c, fs) ==
    IF fs = <<>> THEN c
    ELSE AddFilters(add_filter(c, Head(fs)[1], Head(fs)[2]), Tail(fs))

\* variant: a name that already has an entry keeps it
RECURSIVE AddMissingFilters(_, _)
AddMissingFilters(c, fs) ==
    IF fs = <<>> THEN c
    ELSE AddMissingFilters(IF c.filters[Head(fs)[1]] = "none"
                           THEN add_filter(c, Head(fs)[1], Head(fs)[2]) ELSE c,
                           Tail(fs))

RegisterOnlyMissing(c) == AddMissingFilters(c, BuiltinFilters)

RegisterBuiltins(c) == AddFilters(c, BuiltinFilters)

\* One activation of render.  path: the Template being rendered; i: the
\* position (1-based) of the child the loop is at; buf: the output buffer;
\* status: "loop" while iterating, "break" once the loop was left on an
\* interrupt, "err" once try! returned a child's failure (err).
\* History kept for the properties: pre and intr0, the registry and the
\* interrupt flag the call found; kids, one record per child rendered so far.
\* variant: the interrupt is examined before the first child renders
NewFrameCheckingFirst(path, c) ==
    [path |-> path, i |-> 1, buf |-> <<>>,
     status |-> IF interrupted(c) THEN "break" ELSE "loop", err |-> "",
     pre |-> c.filters, intr0 |-> interrupted(c), kids |-> <<>>]

NewFrame(path, c) ==
    [path |-> path, i |-> 1, buf |-> <<>>, status |-> "loop", err |-> "",
     pre |-> c.filters, intr0 |-> interrupted(c), kids |-> <<>>]

\* variant: the interrupt is never examined
AfterChildNoBreak(f, res, c) ==
    IF res.r = "err" THEN [f EXCEPT !.status = "err", !.err = res.e]
    ELSE [f EXCEPT !.buf = IF res.r = "some" THEN f.buf \o res.s ELSE f.buf,
                   !.i = f.i + 1]

\* variant: the child's output goes in front of the buffer
AfterChildPrepend(f, res, c) ==
    IF res.r = "err" THEN [f EXCEPT !.status = "err", !.err = res.e]
    ELSE LET buf == IF res.r = "some" THEN res.s \o f.buf ELSE f.buf
         IN  IF interrupted(c)
             THEN [f EXCEPT !.buf = buf, !.status = "break"]
             ELSE [f EXCEPT !.buf = buf, !.i = f.i + 1]

\* variant: the interrupt is examined before the child's output is appended
AfterChildBreakFirst(f, res, c) ==
    IF res.r = "err" THEN [f EXCEPT !.status = "err", !.err = res.e]
    ELSE IF interrupted(c) THEN [f EXCEPT !.status = "break"]
    ELSE [f EXCEPT !.buf = IF res.r = "some" THEN f.buf \o res.s ELSE f.buf,
                   !.i = f.i + 1]

\* the loop body after el.render(context) returned res, with c the context
\* the child left behind
AfterChild(f, res, c) ==
    IF res.r = "err" THEN [f EXCEPT !.status = "err", !.err = res.e]
    ELSE LET buf == IF res.r = "some" THEN f.buf \o res.s ELSE f.buf
         IN  IF interrupted(c)
             THEN [f EXCEPT !.buf = buf, !.status = "break"]
             ELSE [f EXCEPT !.buf = buf, !.i = f.i + 1]

\* AfterChild, and the history record of the child just rendered: its
\* position, its result, the interrupt flag it left and, for a Template
\* child, the activation that returned
Absorb(f, res, c, sub) ==
    [AfterChild(f, res, c) EXCEPT
        !.kids = Append(f.kids, [idx |-> f.i, res |-> res, intr |-> interrupted(c),
                                 sub |-> sub])]

NumChildren(f) == Len(NodeAt(tmpl, f.path).elements)

\* the loop is over: left by break or by try!, or out of children
Finished(f) == f.status # "loop" \/ f.i > NumChildren(f)

\* variant: a failure is swallowed and the partial buffer returned
RetValPartial(f) == RSome(f.buf)

\* what render returns: the failure, or Ok(Some(buf))
RetVal(f) == IF f.status = "err" THEN RErr(f.err) ELSE RSome(f.buf)

NoDone == [has |-> FALSE, ret |-> RNone, frame |-> NewFrame(<<>>, ContextNew)]

Top == stack[Len(stack)]
ChildPath(f) == Append(f.path, f.i)
SetTop(f) == [stack EXCEPT ![Len(stack)] = f]

\* the caller renders the top-level Template
StartRender ==
    /\ stack = <<>>
    /\ ctx' = RegisterBuiltins(ctx)
    /\ stack' = <<NewFrame(<<>>, ctx)>>
    /\ calls' = [p \in Paths(tmpl) |-> IF p = <<>> THEN 1 ELSE 0]
    /\ done' = NoDone
    /\ UNCHANGED <<fcall, fres, tmpl>>

\* the loop reaches a child that is itself a Template: its render begins
EnterChild ==
    /\ stack # <<>>
    /\ ~Finished(Top)
    /\ NodeAt(tmpl, ChildPath(Top)).kind = "template"
    /\ ctx' = RegisterBuiltins(ctx)
    /\ stack' = Append(stack, NewFrame(ChildPath(Top), ctx))
    /\ calls' = [calls EXCEPT ![ChildPath(Top)] = @ + 1]
    /\ UNCHANGED <<fcall, fres, tmpl, done>>

\* the loop reaches any other child: it renders, returning res and leaving
\* the interrupt flag at intr, and the loop body completes
RenderLeaf(res, intr) ==
    /\ stack # <<>>
    /\ ~Finished(Top)
    /\ NodeAt(tmpl, ChildPath(Top)).kind = "leaf"
    /\ ctx' = [ctx EXCEPT !.interrupt = intr]
    /\ stack' = SetTop(Absorb(Top, res, ctx', <<>>))
    /\ calls' = [calls EXCEPT ![ChildPath(Top)] = @ + 1]
    /\ UNCHANGED <<fcall, fres, tmpl, done>>

\* a nested Template's render returns to the loop of its parent
ReturnToParent ==
    /\ Len(stack) >= 2
    /\ Finished(Top)
    /\ LET parent == stack[Len(stack) - 1]
           below == SubSeq(stack, 1, Len(stack) - 2)
       IN  stack' = Append(below, Absorb(parent, RetVal(Top), ctx, <<Top>>))
    /\ UNCHANGED <<fcall, fres, tmpl, ctx, calls, done>>

\* the top-level render returns to its caller
ReturnToCaller ==
    /\ Len(stack) = 1
    /\ Finished(Top)
    /\ done' = [has |-> TRUE, ret |-> RetVal(Top), frame |-> Top]
    /\ stack' = <<>>
    /\ UNCHANGED <<fcall, fres, tmpl, ctx, calls>>

\* between renders the caller registers a filter of its own
UserAddFilter(name) ==
    /\ stack = <<>>
    /\ ctx.filters[name] # "user"
    /\ ctx' = add_filter(ctx, name, "user")
    /\ done' = NoDone
    /\ UNCHANGED <<fcall, fres, tmpl, stack, calls>>

\* between renders the interrupt flag is raised or cleared outside Template
SetInterrupt(b) ==
    /\ stack = <<>>
    /\ ctx.interrupt # b
    /\ ctx' = [ctx EXCEPT !.interrupt = b]
    /\ done' = NoDone
    /\ UNCHANGED <<fcall, fres, tmpl, stack, calls>>

Init ==
    /\ fcall = NoCall
    /\ fres = Ok(NoValue)
    /\ tmpl \in Templates
    /\ ctx = ContextNew
    /\ stack = <<>>
    /\ calls = [p \in Paths(tmpl) |-> 0]
    /\ done = NoDone

Next ==
    \/ StartRender
    \/ EnterChild
    \/ \E res \in LeafResults, intr \in BOOLEAN : RenderLeaf(res, intr)
    \/ ReturnToParent
    \/ ReturnToCaller
    \/ \E name \in UserNames : UserAddFilter(name)
    \/ \E b \in BOOLEAN : SetInterrupt(b)

Spec == Init /\ [][Next]_vars

(***************************************************************************)
(* The filters on their own: any filter, any input, any argument list.     *)
(***************************************************************************)
Apply(name, input, args) ==
    /\ fcall' = [name |-> name, input |-> input, args |-> args]
    /\ fres' = CallFilter(name, input, args)
    /\ UNCHANGED <<tmpl, ctx, stack, calls, done>>

FilterInit ==
    /\ fcall = NoCall
    /\ fres = Ok(NoValue)
    /\ tmpl = TemplateNew(<<>>)
    /\ ctx = ContextNew
    /\ stack = <<>>
    /\ calls = [p \in Paths(tmpl) |-> 0]
    /\ done = NoDone

\* the caller has taken the result
Taken ==
    /\ fcall # NoCall
    /\ fcall' = NoCall
    /\ fres' = Ok(NoValue)
    /\ UNCHANGED <<tmpl, ctx, stack, calls, done>>

FilterNext ==
    \/ /\ fcall = NoCall
       /\ \E name \in FilterNames, input \in InputValues, args \in ArgSeqs :
              Apply(name, input, args)
    \/ Taken

FilterSpec == FilterInit /\ [][FilterNext]_vars

(***************************************************************************)
(* Vocabulary of the properties.                                           *)
(***************************************************************************)
\* an activation and, through the history of its children, every nested
\* activation that has returned into it
RECURSIVE SubFrames(_)
SubFrames(f) ==
    {f} \cup UNION {SubFrames(f.kids[j].sub[1]) :
                        j \in {m \in 1..Len(f.kids) : f.kids[m].sub # <<>>}}

\* every activation of the current pass: running, or returned
AllFrames ==
    UNION {SubFrames(stack[k]) : k \in 1..Len(stack)}
    \cup (IF done.has THEN SubFrames(done.frame) ELSE {})

\* every activation that has returned, with the value its caller received
Returned ==
    (IF done.has THEN {[frame |-> done.frame, ret |-> done.ret]} ELSE {})
    \cup UNION {{[frame |-> f.kids[j].sub[1], ret |-> f.kids[j].res] :
                    j \in {m \in 1..Len(f.kids) : f.kids[m].sub # <<>>}} :
                f \in AllFrames}

\* the string outputs of the children rendered, in the order rendered
RECURSIVE ConcatOuts(_)
ConcatOuts(kids) ==
    IF kids = <<>> THEN <<>>
    ELSE (IF Head(kids).res.r = "some" THEN Head(kids).res.s ELSE <<>>)
         \o ConcatOuts(Tail(kids))

\* how often the render of child j of f's Template was invoked
Called(f, j) == calls[Append(f.path, j)]

NoneCalledAfter(f, j) == \A m \in (j + 1)..NumChildren(f) : Called(f, m) = 0

\* child j rendered successfully and the context then reported an interrupt
InterruptedAt(f, j) == f.kids[j].res.r # "err" /\ f.kids[j].intr

FailedAt(f, j) == f.kids[j].res.r = "err"

(***************************************************************************)
(* Properties of Template::render (specification Spec).                    *)
(***************************************************************************)
\* C1: once a child has rendered successfully and the context reports an
\* interrupt, the loop is left at that child: it is the last child rendered,
\* no later child's render is ever invoked, and the call returns
\* Ok(Some(..)) of the outputs of the children up to and including it, in
\* order.
C1_InterruptStopsLoop ==
    /\ \A f \in AllFrames : \A j \in 1..Len(f.kids) :
          InterruptedAt(f, j) =>
              /\ j = Len(f.kids)
              /\ f.kids[j].idx = j
              /\ f.status = "break"
              /\ NoneCalledAfter(f, j)
              /\ f.buf = ConcatOuts(f.kids)
    /\ \A r \in Returned :
          r.frame.status = "break" =>
              /\ InterruptedAt(r.frame, Len(r.frame.kids))
              /\ r.ret = RSome(ConcatOuts(r.frame.kids))

\* children "a", "b" then interrupt, then a third child: "ab", third never rendered
C1_Witness ==
    /\ done.has
    /\ NumChildren(done.frame) = 3
    /\ Len(done.frame.kids) = 2
    /\ done.frame.kids[1].res = RSome(<<97>>)
    /\ done.frame.kids[2].res = RSome(<<98>>)
    /\ ~done.frame.kids[1].intr
    /\ done.frame.kids[2].intr
    /\ done.ret = RSome(<<97, 98>>)
    /\ calls[<<3>>] = 0

\* C2: when a child's render fails, the Template's render returns that same
\* failure and no string, whatever the buffer held, and no later child is
\* rendered.
C2_FailurePropagates ==
    /\ \A f \in AllFrames : \A j \in 1..Len(f.kids) :
          FailedAt(f, j) =>
              /\ j = Len(f.kids)
              /\ f.status = "err"
              /\ NoneCalledAfter(f, j)
    /\ \A r \in Returned :
          (\E j \in 1..Len(r.frame.kids) : FailedAt(r.frame, j)) =>
              /\ r.ret = r.frame.kids[Len(r.frame.kids)].res
              /\ r.ret.r = "err"
              /\ r.ret.s = <<>>

C2_Witness ==
    /\ done.has
    /\ NumChildren(done.frame) = 3
    /\ Len(done.frame.kids) = 2
    /\ done.frame.kids[1].res = RSome(<<97>>)
    /\ done.frame.kids[2].res = RErr("E2")
    /\ done.frame.buf = <<97>>
    /\ done.ret = RErr("E2")
    /\ calls[<<3>>] = 0

\* C3: a render in which no child fails and no interrupt is reported renders
\* every child exactly once, in index order, and returns Ok(Some(s)) with s
\* the concatenation of the children's string outputs (None adds nothing);
\* with no children s is the empty string.
C3_FullRenderConcatenates ==
    \A r \in Returned :
        (\A j \in 1..Len(r.frame.kids) :
            ~FailedAt(r.frame, j) /\ ~InterruptedAt(r.frame, j)) =>
            /\ Len(r.frame.kids) = NumChildren(r.frame)
            /\ \A j \in 1..NumChildren(r.frame) :
                  /\ r.frame.kids[j].idx = j
                  /\ Called(r.frame, j) = 1
            /\ r.ret.r = "some"
            /\ r.ret.s = ConcatOuts(r.frame.kids)
            /\ NumChildren(r.frame) = 0 => r.ret = RSome(<<>>)

C3_Witness ==
    /\ done.has
    /\ NumChildren(done.frame) = 3
    /\ Len(done.frame.kids) = 3
    /\ done.frame.kids[1].res = RSome(<<97>>)
    /\ done.frame.kids[2].res = RNone
    /\ done.frame.kids[3].res = RSome(<<98>>)
    /\ \A j \in 1..3 : ~done.frame.kids[j].intr /\ calls[<<j>>] = 1
    /\ done.ret = RSome(<<97, 98>>)

\* C8: a render that begins with the interrupt already reported still
\* renders its first child, once; if that child succeeds and the interrupt
\* is still reported, render returns the first child's output alone and no
\* other child is rendered.
C8_InterruptCheckedAfterChild ==
    /\ \A f \in AllFrames :
          (f.intr0 /\ NumChildren(f) >= 1) => f.status = "loop" \/ Len(f.kids) >= 1
    /\ \A r \in Returned :
          (r.frame.intr0 /\ NumChildren(r.frame) >= 1) =>
              /\ Len(r.frame.kids) >= 1
              /\ Called(r.frame, 1) = 1
              /\ InterruptedAt(r.frame, 1) =>
                    /\ Len(r.frame.kids) = 1
                    /\ r.ret = RSome(ConcatOuts(<<r.frame.kids[1]>>))
                    /\ NoneCalledAfter(r.frame, 1)

C8_Witness ==
    /\ done.has
    /\ done.frame.intr0
    /\ NumChildren(done.frame) >= 2
    /\ Len(done.frame.kids) = 1
    /\ done.frame.kids[1].res = RSome(<<97>>)
    /\ done.frame.kids[1].intr
    /\ calls[<<1>>] = 1
    /\ calls[<<2>>] = 0
    /\ done.ret = RSome(<<97>>)

\* C9: while a render call is active (top-level or nested, and whatever the
\* registry held before the call), each of the ten names maps to the
\* built-in filter of that name.
C9_BuiltinsRegistered ==
    stack # <<>> => \A n \in FilterNames : ctx.filters[n] = n

\* a repeated call that found "replace" overridden by the caller, a child
\* of it having rendered
C9_Witness ==
    /\ stack # <<>>
    /\ stack[1].pre["replace"] = "user"
    /\ stack[1].pre["size"] = "size"
    /\ Len(stack[1].kids) >= 1
    /\ ~Finished(Top)

\* C10: when a nested Template leaves its loop on an interrupt, the
\* interrupt is still reported as it returns; the outer Template appends the
\* partial output it returned and leaves its own loop there, rendering none
\* of its later children.
C10_InterruptPropagates ==
    \A f \in AllFrames : \A j \in 1..Len(f.kids) :
        (f.kids[j].sub # <<>> /\ f.kids[j].sub[1].status = "break") =>
            /\ f.kids[j].intr
            /\ f.kids[j].res = RSome(f.kids[j].sub[1].buf)
            /\ j = Len(f.kids)
            /\ f.status = "break"
            /\ f.buf = ConcatOuts(SubSeq(f.kids, 1, j - 1)) \o f.kids[j].sub[1].buf
            /\ NoneCalledAfter(f, j)

\* outer [Template[leaf, leaf], leaf]: the inner's first child outputs "a"
\* and raises the interrupt
C10_Witness ==
    /\ done.has
    /\ NumChildren(done.frame) = 2
    /\ Len(done.frame.kids) = 1
    /\ done.frame.kids[1].sub # <<>>
    /\ done.frame.kids[1].sub[1].status = "break"
    /\ NumChildren(done.frame.kids[1].sub[1]) = 2
    /\ Len(done.frame.kids[1].sub[1].kids) = 1
    /\ done.frame.kids[1].sub[1].kids[1].res = RSome(<<97>>)
    /\ calls[<<1, 2>>] = 0
    /\ calls[<<2>>] = 0
    /\ done.ret = RSome(<<97>>)

(***************************************************************************)
(* Properties of the filters (specification FilterSpec).                   *)
(***************************************************************************)
Arithmetic == {"minus", "plus", "times", "divided_by"}

\* the input variants each filter accepts
Accepted(name) ==
    CASE name = "size" -> {"Str", "Array", "Object"}
      [] name \in {"upcase", "replace"} -> {"Str"}
      [] OTHER -> {"Num"}

\* positions (1-based) at which pattern a occurs in s; the empty pattern
\* occurs at every boundary, the end of s included
Occurrences(s, a) ==
    {p \in 1..(Len(s) + 1) : p + Len(a) - 1 <= Len(s) /\ SubSeq(s, p, p + Len(a) - 1) = a}

\* s with the text at the positions P (each of them Len(a) long) replaced by b
Rewritten(s, a, b, P) ==
    LET Piece(i) ==
            (IF i \in P THEN b ELSE <<>>)
            \o (IF i <= Len(s) /\ ~\E p \in P : p <= i /\ i < p + Len(a)
                THEN <<s[i]>> ELSE <<>>)
        RECURSIVE From(_)
        From(i) == IF i > Len(s) + 1 THEN <<>> ELSE Piece(i) \o From(i + 1)
    IN  From(1)

\* r is s with every occurrence of a replaced by b: some set P of
\* occurrences that do not overlap, and that leave no occurrence untouched
\* (each one is in P or overlaps an earlier member of P), is rewritten
EveryOccurrenceReplaced(s, a, b, r) ==
    \E P \in SUBSET Occurrences(s, a) :
        /\ \A p, q \in P : p < q => p + Len(a) <= q
        /\ \A q \in Occurrences(s, a) :
              q \in P \/ \E p \in P : p < q /\ q < p + Len(a)
        /\ r = Rewritten(s, a, b, P)

\* C4: every filter, called with an input of a variant it does not accept,
\* returns InvalidType, whatever the arguments.
C4_WrongVariantIsInvalidType ==
    (fcall # NoCall /\ fcall.input.t \notin Accepted(fcall.name)) =>
        fres.kind = "InvalidType"

\* C5: replace on a Str input: InvalidArgumentCount unless there are exactly
\* two arguments; with two, InvalidArgument at the position of the first
\* argument that is not a Str; with two Str arguments, the input with every
\* occurrence of the first replaced by the second.
C5_ReplaceOnStr ==
    (fcall.name = "replace" /\ fcall.input.t = "Str") =>
        LET args == fcall.args
        IN  /\ Len(args) # 2 =>
                  fres.kind = "InvalidArgumentCount" /\ fres.given = Len(args)
            /\ (Len(args) = 2 /\ args[1].t # "Str") =>
                  fres.kind = "InvalidArgument" /\ fres.pos = 0
            /\ (Len(args) = 2 /\ args[1].t = "Str" /\ args[2].t # "Str") =>
                  fres.kind = "InvalidArgument" /\ fres.pos = 1
            /\ (Len(args) = 2 /\ args[1].t = "Str" /\ args[2].t = "Str") =>
                  /\ fres.kind = "Ok"
                  /\ fres.val.t = "Str"
                  /\ EveryOccurrenceReplaced(fcall.input.v, args[1].v, args[2].v,
                                             fres.val.v)

\* replace("aa", ["a", "ab"]) = "abab": two occurrences, the replacement
\* holding the pattern
C5_Witness ==
    /\ fcall = [name |-> "replace", input |-> Str(<<97, 97>>),
                args |-> <<Str(<<97>>), Str(<<97, 98>>)>>]
    /\ fres = Ok(Str(<<97, 98, 97, 98>>))

\* C6: minus, plus, times and divided_by check the input first and the
\* first argument second: InvalidType on an input that is not a Num;
\* InvalidArgument at position 0 on a Num input whose arguments are empty or
\* do not start with a Num; otherwise a Num, further arguments
\* notwithstanding.  None of them returns InvalidArgumentCount.
C6_ArithmeticValidation ==
    fcall.name \in Arithmetic =>
        /\ fcall.input.t # "Num" => fres.kind = "InvalidType"
        /\ (fcall.input.t = "Num" /\ ~HasFirstNum(fcall.args)) =>
              fres.kind = "InvalidArgument" /\ fres.pos = 0
        /\ (fcall.input.t = "Num" /\ HasFirstNum(fcall.args)) =>
              fres.kind = "Ok" /\ fres.val.t = "Num"
        /\ fres.kind # "InvalidArgumentCount"

\* divided_by(2.5, [2, true, ""]) = 1: a Num first argument, others following
C6_Witness ==
    /\ fcall = [name |-> "divided_by", input |-> Num(Rat(5, 2)),
                args |-> <<Num(Rat(2, 1)), Bool(TRUE), Str(<<>>)>>]
    /\ fres = Ok(Num(Rat(1, 1)))

\* C7: size is the number of characters of a Str, of elements of an Array,
\* of entries of an Object, whatever the arguments.
C7_SizeCountsCharacters ==
    fcall.name = "size" =>
        /\ fcall.input.t = "Str" => fres = Ok(Num(Rat(Len(fcall.input.v), 1)))
        /\ fcall.input.t = "Array" => fres = Ok(Num(Rat(Len(fcall.input.v), 1)))
        /\ fcall.input.t = "Object" =>
              fres = Ok(Num(Rat(Cardinality(DOMAIN fcall.input.v), 1)))

====
